---- MODULE Spec2Model ----
(***************************************************************************)
(* A model of pymultiscale/modwt.py: the coefficient bundle produced by    *)
(* the MODWT and the operations of UndecimatedWaveletTransform that edit   *)
(* it (threshold_by_band, low_pass_spatial_filter, update,                 *)
(* multiplicative_update), flatten it (coefs_to_vec, vec_to_coefs) and     *)
(* produce it (modwt_transform / fwd).                                     *)
(*                                                                         *)
(* An array is a record [shape, data]: shape is the numpy shape tuple and  *)
(* data maps every zero-based index tuple to the element.  A bundle (the   *)
(* python list coefs) is a function from 0..len-1 to arrays, so that band  *)
(* indices are written as in the source.  Numbers are integers; true       *)
(* division is modelled exactly (TrueDiv) and is only defined where the    *)
(* quotient is an integer, which the input sets below guarantee.           *)
(***************************************************************************)
EXTENDS Integers, Sequences, FiniteSets, TLC

VARIABLES
    coefs,      \* the coefficient bundle the caller owns and the editors mutate
    orig,       \* history: the bundle before the first call
    pre,        \* history: the bundle before the last call
    op,         \* history: the last call, with its arguments
    repeated,   \* history: the last call had the same arguments as the one before
    calls,      \* the invocations threshold_func / the transform engine received
    result,     \* outcome of the last call: "ok" or the exception raised
    ret,        \* value the last call returned, besides the bundle
    ncalls,     \* history: number of calls made, counted up to MaxCalls
    facade      \* (img_shape, wavelet_type, num_bands, example_coefs) of the object

vars == <<coefs, orig, pre, op, repeated, calls, result, ret, ncalls, facade>>

\* python's None; an optional argument that is given is the one-element tuple
\* <<v>>, so that None compares with it
None == <<>>
Some(v) == <<v>>
Val(o) == o[1]

Abs(x) == IF x < 0 THEN -x ELSE x

Pow2(n) == 2 ^ n

\* python's float division a / b, exact: defined when b divides a
TrueDiv(a, b) == CHOOSE q \in (-Abs(a))..Abs(a) : q * b = a

(***************************************************************************)
(* Arrays and bundles                                                      *)
(***************************************************************************)

\* the index tuples of an array of the given shape (1, 2 or 3 dimensions)
Indices(shape) ==
    IF Len(shape) = 1 THEN { <<i>> : i \in 0..(shape[1] - 1) }
    ELSE IF Len(shape) = 2
         THEN { <<i, j>> : i \in 0..(shape[1] - 1), j \in 0..(shape[2] - 1) }
         ELSE { <<i, j, k>> : i \in 0..(shape[1] - 1), j \in 0..(shape[2] - 1),
                              k \in 0..(shape[3] - 1) }

\* np.prod(shape)
RECURSIVE Prod(_)
Prod(shape) == IF shape = <<>> THEN 1 ELSE Head(shape) * Prod(Tail(shape))

\* position of idx in column-major (order = 'f') traversal: first index fastest
RECURSIVE ColMajor(_, _)
ColMajor(idx, shape) ==
    IF idx = <<>> THEN 0 ELSE Head(idx) + Head(shape) * ColMajor(Tail(idx), Tail(shape))

\* position of idx in row-major (order = 'c') traversal: last index fastest
RECURSIVE RowMajor(_, _)
RowMajor(idx, shape) ==
    IF idx = <<>> THEN 0
    ELSE Head(idx) * Prod(Tail(shape)) + RowMajor(Tail(idx), Tail(shape))

\* len(coefs)
LenB(c) == Cardinality(DOMAIN c)

(***************************************************************************)
(* threshold_by_band                                                       *)
(***************************************************************************)

\* the caller's threshold_func(A, band_level, plane) -> (band_center, band_threshold):
\* tf is [center, base, perLevel], a function of the band level alone
ThresholdFunc(tf, band_level, plane) == <<tf.center, tf.base + tf.perLevel * band_level>>

\* for b in xrange(len(coefs) - 1)
DetailBandsAll(c) == 0..(LenB(c) - 1)
DetailBands(c) == 0..(LenB(c) - 2)

\* band_level = int(np.floor(b/7))
BandDirection(b) == b % 7
BandLevel(b) == b \div 7

\* if scaling_factor != None: band_threshold /= scaling_factor
ScaledThreshold(band_threshold, scaling_factor) ==
    IF scaling_factor # None THEN TrueDiv(band_threshold, Val(scaling_factor))
    ELSE band_threshold

\* idxs = np.where(A > band_threshold); A[idxs] -= band_threshold
SoftStep1(x, t) == IF x > t THEN x - t ELSE x
\* idxs = np.where(np.abs(A) <= band_threshold); A[idxs] = 0.0
SoftStep2(x, t) == IF Abs(x) <= t THEN 0 ELSE x
\* idxs = np.where(A < -band_threshold); A[idxs] += band_threshold
SoftStep3(x, t) == IF x < -t THEN x + t ELSE x

\* the three statements in the order the source runs them, each on the
\* values the previous one left
SoftThreshold(x, t) == SoftStep3(SoftStep2(SoftStep1(x, t), t), t)

\* idxs = np.where(np.abs(A - band_center) < band_threshold); A[idxs] = 0.0
CenterGate(x, c, t) == IF Abs(x - c) < t THEN 0 ELSE x

\* roll_offset, adjusted_plane and the two wrap-around tests
AdjustedPlane(p, band_level, num_planes) ==
    LET roll_offset == Pow2(band_level + 1)
        a0 == p - roll_offset
        a1 == IF a0 >= num_planes THEN a0 - num_planes ELSE a0
    IN  IF a1 < 0 THEN a1 + num_planes ELSE a1

\* the else branch: whole-band soft thresholding of coefs[b]
ThresholdWholeBand(A, tf, band_level, scaling_factor) ==
    LET t == ScaledThreshold(ThresholdFunc(tf, band_level, None)[2], scaling_factor)
    IN  [shape |-> A.shape,
         data |-> [idx \in DOMAIN A.data |-> SoftThreshold(A.data[idx], t)]]

\* the within_axis branch: every plane p of coefs[b] along within_axis is
\* gated around band_center and soft thresholded, through a view
ThresholdPlanes(A, tf, band_level, within_axis, scaling_factor) ==
    LET num_planes == A.shape[within_axis + 1]
        ct(p) == ThresholdFunc(tf, band_level,
                               Some(AdjustedPlane(p, band_level, num_planes)))
        t(p) == ScaledThreshold(ct(p)[2], scaling_factor)
    IN  [shape |-> A.shape,
         data |-> [idx \in DOMAIN A.data |->
                     LET p == idx[within_axis + 1]
                     IN  SoftThreshold(CenterGate(A.data[idx], ct(p)[1], t(p)), t(p))]]

\* the invocations of threshold_func one band makes
BandCalls(A, b, within_axis) ==
    IF within_axis = None
    THEN { [band |-> b, p |-> None, band_level |-> BandLevel(b), plane |-> None] }
    ELSE { [band |-> b, p |-> Some(p), band_level |-> BandLevel(b),
            plane |-> Some(AdjustedPlane(p, BandLevel(b), A.shape[Val(within_axis) + 1]))] :
           p \in 0..(A.shape[Val(within_axis) + 1] - 1) }

\* threshold_by_band(coefs, threshold_func, skip_bands, within_axis, scaling_factor):
\* the bundle it leaves, the threshold_func invocations and the outcome
ThresholdByBand(c, tf, skip_bands, within_axis, scaling_factor) ==
    LET ndims == Len(c[0].shape)
        todo == { b \in DetailBands(c) : BandLevel(b) \notin skip_bands }
    IN  IF ndims \notin {1, 2, 3}
        THEN [coefs |-> c, calls |-> {}, result |-> "NotImplementedError"]
        ELSE IF within_axis # None /\ ndims # 3 /\ todo # {}
        THEN \* shape[within_axis] or the three-index slice of the first band fails
             [coefs |-> c, calls |-> {}, result |-> "IndexError"]
        ELSE [coefs |-> [b \in DOMAIN c |->
                           IF b \notin todo THEN c[b]
                           ELSE IF within_axis = None
                           THEN ThresholdWholeBand(c[b], tf, BandLevel(b), scaling_factor)
                           ELSE ThresholdPlanes(c[b], tf, BandLevel(b), Val(within_axis),
                                                scaling_factor)],
              calls |-> UNION { BandCalls(c[b], b, within_axis) : b \in todo },
              result |-> "ok"]

(***************************************************************************)
(* low_pass_spatial_filter                                                 *)
(***************************************************************************)

\* band_level = int(np.floor(b/7))
LowPassBandLevel(b) == b \div 7

\* if p > range[0] and p < range[1] and band_level < max_band
InMaskClosed(p, band_level, range, max_band) ==
    p >= range[1] /\ p < range[2] /\ band_level < max_band
InMask(p, band_level, range, max_band) ==
    p > range[1] /\ p < range[2] /\ band_level < max_band

\* low_pass_spatial_filter(coefs, within_axis, range, max_band)
LowPassSpatialFilter(c, within_axis, range, max_band) ==
    LET ndims == Len(c[0].shape)
        num_bands == LenB(c) - 1
    IN  IF num_bands > 0 /\ ndims # 3
        THEN \* shape[within_axis] or the three-index slice of the first band fails
             [coefs |-> c, result |-> "IndexError"]
        ELSE [coefs |-> [b \in DOMAIN c |->
                           IF b >= num_bands THEN c[b]
                           ELSE [shape |-> c[b].shape,
                                 data |-> [idx \in DOMAIN c[b].data |->
                                    IF InMask(idx[within_axis + 1], LowPassBandLevel(b),
                                              range, max_band)
                                    THEN 0 ELSE c[b].data[idx]]]],
              result |-> "ok"]

(***************************************************************************)
(* update and multiplicative_update                                        *)
(***************************************************************************)

RECURSIVE SumOver(_, _)
SumOver(S, f) ==
    IF S = {} THEN 0
    ELSE LET e == CHOOSE x \in S : TRUE IN f[e] + SumOver(S \ {e}, f)

\* A.sum()
ArraySum(A) == SumOver(DOMAIN A.data, A.data)

\* np.sqrt(s), kept exact: the non-negative real whose square is s
Sqrt(s) == [sqrt_of |-> s]

\* delta = alpha * update[b]
DeltaNoAlpha(alpha, U) == U
Delta(alpha, U) ==
    [shape |-> U.shape, data |-> [idx \in DOMAIN U.data |-> alpha * U.data[idx]]]

\* coefs[b] += delta
AddArray(A, D) == [shape |-> A.shape, data |-> [idx \in DOMAIN A.data |-> A.data[idx] + D.data[idx]]]

\* np.square(delta).sum()
SquareSum(D) ==
    ArraySum([shape |-> D.shape, data |-> [idx \in DOMAIN D.data |-> D.data[idx] * D.data[idx]]])

\* update(coefs, update, alpha)
Update(c, update, alpha) ==
    IF LenB(c) # LenB(update)
    THEN [coefs |-> c, result |-> "AssertionError", ret |-> None]
    ELSE LET update_squared_sum ==
                 SumOver(DOMAIN c, [b \in DOMAIN c |-> SquareSum(Delta(alpha, update[b]))])
         IN  [coefs |-> [b \in DOMAIN c |-> AddArray(c[b], Delta(alpha, update[b]))],
              result |-> "ok",
              ret |-> Sqrt(update_squared_sum)]

\* ((coefs[b] * numerator[b]) / normalization[b]) / (denominator[b] + alpha)
Ratio(A, N, D, Z, alpha) ==
    [shape |-> A.shape,
     data |-> [idx \in DOMAIN A.data |->
                 TrueDiv(TrueDiv(A.data[idx] * N.data[idx], Z.data[idx]),
                         D.data[idx] + alpha)]]

\* multiplicative_update(coefs, numerator, denominator, normalization, alpha):
\* the assertion compares three lengths; normalization[b] raises IndexError
\* at the first b it does not have, after the bands before it were replaced
MultiplicativeUpdate(c, numerator, denominator, normalization, alpha) ==
    IF ~(LenB(c) = LenB(numerator) /\ LenB(numerator) = LenB(denominator))
    THEN [coefs |-> c, result |-> "AssertionError"]
    ELSE LET done == IF LenB(normalization) < LenB(c) THEN LenB(normalization)
                     ELSE LenB(c)
         IN  [coefs |-> [b \in DOMAIN c |->
                           IF b < done
                           THEN Ratio(c[b], numerator[b], denominator[b],
                                      normalization[b], alpha)
                           ELSE c[b]],
              result |-> IF done < LenB(c) THEN "IndexError" ELSE "ok"]

(***************************************************************************)
(* modwt_transform, fwd and the constructor                                *)
(***************************************************************************)

\* directional sub-bands per level the transform engine produces for ndims
Directions(ndims) == IF ndims = 1 THEN 1 ELSE IF ndims = 2 THEN 3 ELSE 7

\* len of the bundle the engine returns: ndirections * num_bands + 1
BundleLen(ndims, num_bands) == Directions(ndims) * num_bands + 1

\* what modwt1 / modwt2 / modwt3 return for data of the given shape: a list
\* of BundleLen arrays of that shape (the values are the engine's business)
EngineForward(shape, num_bands) ==
    IF num_bands >= 1
    THEN [len |-> BundleLen(Len(shape), num_bands), shape |-> shape]
    ELSE None

\* np.min(data.shape)
RECURSIVE MinOf(_)
MinOf(shape) ==
    IF Len(shape) = 1 THEN shape[1]
    ELSE LET m == MinOf(Tail(shape)) IN IF Head(shape) < m THEN Head(shape) ELSE m

\* np.ceil(np.log2(m)) for m >= 1
CeilLog2(m) == CHOOSE k \in 0..m : 2 ^ k >= m /\ (k = 0 \/ 2 ^ (k - 1) < m)

\* num_bands = int(np.ceil(np.log2(np.min(data.shape))) - 3)
AutoNumBands(shape) == CeilLog2(MinOf(shape)) - 3

\* modwt_transform(data, wavelet_type, num_bands): the outcome, the engine
\* invocation it makes and what it returns
ModwtTransform(data, wavelet_type, num_bands) ==
    LET ndims == Len(data.shape)
        nb == IF num_bands = None THEN AutoNumBands(data.shape) ELSE Val(num_bands)
        engine == IF ndims = 1 THEN "modwt1" ELSE IF ndims = 2 THEN "modwt2" ELSE "modwt3"
    IN  IF num_bands = None /\ ~(nb > 0)
        THEN [result |-> "AssertionError", calls |-> {}, ret |-> None]
        ELSE IF ndims \in {1, 2, 3}
        THEN [result |-> "ok",
              calls |-> { [engine |-> engine, shape |-> data.shape, dtype |-> "float64",
                           wavelet_type |-> wavelet_type, num_bands |-> nb] },
              ret |-> EngineForward(data.shape, nb)]
        ELSE [result |-> "NotImplementedError", calls |-> {}, ret |-> None]

\* fwd(self, data)
Fwd(self, data) == ModwtTransform(data, self.wavelet_type, self.num_bands)

\* __init__(self, img_shape, wavelet_type, num_bands): the probe transform of
\* np.zeros(img_shape) gives example_coefs
Construct(img_shape, wavelet_type, num_bands) ==
    LET self == [img_shape |-> img_shape, wavelet_type |-> wavelet_type,
                 num_bands |-> num_bands]
        probe == Fwd(self, [shape |-> img_shape, dtype |-> "float64"])
    IN  [img_shape |-> img_shape, wavelet_type |-> wavelet_type, num_bands |-> num_bands,
         example_coefs |-> probe.ret, constructed |-> probe.result]

(***************************************************************************)
(* coefs_to_vec and vec_to_coefs                                           *)
(***************************************************************************)

\* vec.ravel(order = 'f')
Ravel(A) ==
    [k \in 1..Prod(A.shape) |->
        A.data[CHOOSE idx \in DOMAIN A.data : ColMajor(idx, A.shape) = k - 1]]

\* np.hstack of the ravelled arrays, in list order
RECURSIVE HStack(_, _)
HStack(c, b) == IF b >= LenB(c) THEN <<>> ELSE Ravel(c[b]) \o HStack(c, b + 1)

\* coefs_to_vec(self, coefs)
CoefsToVec(c) == HStack(c, 0)

\* np.reshape(vec, img_shape, order = 'f')
ReshapeC(vec, shape) ==
    [shape |-> shape, data |-> [idx \in Indices(shape) |-> vec[RowMajor(idx, shape) + 1]]]
Reshape(vec, shape) ==
    [shape |-> shape, data |-> [idx \in Indices(shape) |-> vec[ColMajor(idx, shape) + 1]]]

\* vec_to_coefs(self, coef_vec): np.split needs an equal division and
\* np.reshape a chunk of prod(img_shape) elements, else ValueError
VecToCoefs(self, coef_vec) ==
    LET n == self.example_coefs.len
        size == Len(coef_vec) \div n
    IN  IF Len(coef_vec) % n # 0 \/ size # Prod(self.img_shape)
        THEN [result |-> "ValueError", ret |-> None]
        ELSE [result |-> "ok",
              ret |-> [b \in 0..(n - 1) |->
                         Reshape(SubSeq(coef_vec, b * size + 1, (b + 1) * size),
                                 self.img_shape)]]

(***************************************************************************)
(* Inputs: bundles and arguments                                           *)
(***************************************************************************)

\* largest num_bands of an input bundle
MaxBands == 2
\* longest editing session of SpecEdit
MaxCalls == 2

Shapes == { <<3>>, <<2, 2>>, <<1, 2, 3>>, <<1, 1, 8>> }

Pattern == <<3, -3, 5, -1, 0, 1, -5, 2, -2, 4, -4>>

Seeds == {0, 8}

\* an input bundle of n arrays of one shape, with element values taken from pat
MakeBundleOf(pat, shape, n, seed) ==
    [b \in 0..(n - 1) |->
        [shape |-> shape,
         data |-> [idx \in Indices(shape) |->
                     pat[((seed + 5 * b + ColMajor(idx, shape)) % Len(pat)) + 1]]]]

MakeBundle(shape, n, seed) == MakeBundleOf(Pattern, shape, n, seed)

Bundles ==
    { MakeBundle(shape, BundleLen(Len(shape), nb), seed) :
        shape \in Shapes, nb \in 0..MaxBands, seed \in Seeds }

ThresholdFuncs == [center : {0, 1}, base : {0, 2}, perLevel : {0, 2}]

ThresholdCalls ==
    [name : {"threshold_by_band"}, tf : ThresholdFuncs, skip_bands : SUBSET {0, 1},
     within_axis : {None, Some(0), Some(1), Some(2)}, scaling_factor : {None, Some(2)}]

LowPassCalls ==
    [name : {"low_pass_spatial_filter"}, within_axis : {0, 1, 2},
     range : { <<0, 0>>, <<0, 2>>, <<-1, 3>>, <<1, 3>> }, max_band : {0, 1, 2}]

NoCall == [name |-> "None"]

NoFacade == [img_shape |-> <<>>]

(***************************************************************************)
(* The editors as actions                                                  *)
(***************************************************************************)

Count == ncalls' = IF ncalls < MaxCalls THEN ncalls + 1 ELSE ncalls

DoThreshold(a) ==
    LET r == ThresholdByBand(coefs, a.tf, a.skip_bands, a.within_axis, a.scaling_factor)
    IN  /\ coefs' = r.coefs
        /\ calls' = r.calls
        /\ result' = r.result
        /\ ret' = None
        /\ pre' = coefs
        /\ op' = a
        /\ repeated' = (op = a)
        /\ Count
        /\ UNCHANGED <<orig, facade>>

DoLowPass(a) ==
    LET r == LowPassSpatialFilter(coefs, a.within_axis, a.range, a.max_band)
    IN  /\ coefs' = r.coefs
        /\ calls' = {}
        /\ result' = r.result
        /\ ret' = None
        /\ pre' = coefs
        /\ op' = a
        /\ repeated' = (op = a)
        /\ Count
        /\ UNCHANGED <<orig, facade>>

InitEdit ==
    /\ coefs \in Bundles
    /\ orig = coefs
    /\ pre = coefs
    /\ op = NoCall
    /\ repeated = FALSE
    /\ calls = {}
    /\ result = "None"
    /\ ret = None
    /\ ncalls = 0
    /\ facade = NoFacade

\* Spec: one call, with any arguments, made on a bundle and then made again
\* with the same arguments
threshold_by_band ==
    \E a \in ThresholdCalls : (op = NoCall \/ op = a) /\ DoThreshold(a)

low_pass_spatial_filter ==
    \E a \in LowPassCalls : (op = NoCall \/ op = a) /\ DoLowPass(a)

Init == InitEdit

Next == threshold_by_band \/ low_pass_spatial_filter

Spec == Init /\ [][Next]_vars

\* SpecEdit: an editing session, up to MaxCalls calls of the two band editors
\* in any order, each with its own arguments
ThresholdCallsEdit ==
    { a \in ThresholdCalls :
        /\ a.tf \in { [center |-> 0, base |-> 2, perLevel |-> 0],
                      [center |-> 1, base |-> 2, perLevel |-> 2] }
        /\ a.skip_bands \in { {}, {0} }
        /\ a.within_axis \in { None, Some(2) }
        /\ a.scaling_factor \in { None, Some(2) } }

LowPassCallsEdit ==
    { a \in LowPassCalls :
        /\ a.within_axis \in {0, 2}
        /\ a.range \in { <<0, 0>>, <<0, 2>>, <<-1, 3>> }
        /\ a.max_band \in {1, 2} }

edit_threshold_by_band ==
    \E a \in ThresholdCallsEdit : ncalls < MaxCalls /\ DoThreshold(a)

edit_low_pass_spatial_filter ==
    \E a \in LowPassCallsEdit : ncalls < MaxCalls /\ DoLowPass(a)

NextEdit == edit_threshold_by_band \/ edit_low_pass_spatial_filter

SpecEdit == InitEdit /\ [][NextEdit]_vars

(***************************************************************************)
(* Properties of the band editors                                          *)
(***************************************************************************)

IsThreshold == op.name = "threshold_by_band"
IsLowPass == op.name = "low_pass_spatial_filter"
Last(c) == LenB(c) - 1

\* C1: after any sequence of threshold_by_band and low_pass_spatial_filter
\* calls the last entry of the bundle, the low-pass band, holds exactly the
\* values it held before the first call.
C1_LowPassBandUntouched ==
    /\ DOMAIN coefs = DOMAIN orig
    /\ coefs[Last(coefs)] = orig[Last(orig)]

\* C1 witness: a session in which a threshold_by_band call shrank a detail
\* coefficient and a later low_pass_spatial_filter call zeroed a plane, on a
\* bundle whose low-pass band is not zero.
C1_Witness ==
    /\ IsLowPass /\ result = "ok" /\ coefs # pre
    /\ \E b \in DetailBands(coefs) : \E idx \in DOMAIN coefs[b].data :
          coefs[b].data[idx] \notin {0, orig[b].data[idx]}
    /\ \E idx \in DOMAIN coefs[Last(coefs)].data : coefs[Last(coefs)].data[idx] # 0

\* the effective threshold of the specification: the one threshold_func returns for the
\* level, divided by scaling_factor when given
EffectiveThreshold(a, level) ==
    IF a.scaling_factor = None THEN a.tf.base + a.tf.perLevel * level
    ELSE (a.tf.base + a.tf.perLevel * level) \div Val(a.scaling_factor)

\* the soft thresholding rule of the specification
SoftRule(x, t) == IF x > t THEN x - t ELSE IF x < -t THEN x + t ELSE 0

\* C2: in whole-band mode, every element of every band threshold_func was
\* invoked for, with pre-call value x and effective threshold t >= 0, is
\* x - t if x > t, 0 if |x| <= t and x + t if x < -t after the call.
C2_SoftThresholdRule ==
    (IsThreshold /\ op.within_axis = None /\ result = "ok") =>
        \A r \in calls : \A idx \in DOMAIN coefs[r.band].data :
            LET t == EffectiveThreshold(op, r.band_level)
            IN  t >= 0 => coefs[r.band].data[idx] = SoftRule(pre[r.band].data[idx], t)

\* C3 as stated: threshold_by_band applied a second time with the same
\* deterministic threshold_func and no skip_bands leaves the bundle as the
\* first application left it.
C3_Idempotent ==
    (IsThreshold /\ repeated /\ op.skip_bands = {}) => coefs = pre

\* C3 amended: when threshold_by_band is applied a second time with the same
\* arguments and no skip_bands, every element whose value x before the first
\* application satisfied |x| <= t, with t >= 0 the effective threshold of its
\* band, has the value the first application gave it (0), and the low-pass
\* band is unchanged.
C3_IdempotentInsideThreshold ==
    [][ (op' = op /\ op.name = "threshold_by_band" /\ op.skip_bands = {}) =>
          \A b \in DOMAIN coefs : \A idx \in DOMAIN coefs[b].data :
              LET t == EffectiveThreshold(op, b \div 7)
              IN  (b = Last(coefs) \/ Abs(pre[b].data[idx]) <= t) =>
                      coefs'[b].data[idx] = coefs[b].data[idx] ]_vars

\* C3 witness: the call was repeated; an element that was non-zero and within
\* the threshold before the first call is 0 after both, while another element
\* was shrunk again by the second call.
C3_Witness ==
    /\ IsThreshold /\ repeated /\ op.skip_bands = {} /\ result = "ok"
    /\ \E b \in DetailBands(coefs) : \E idx \in DOMAIN coefs[b].data :
          /\ orig[b].data[idx] # 0
          /\ Abs(orig[b].data[idx]) <= EffectiveThreshold(op, b \div 7)
          /\ pre[b].data[idx] = 0 /\ coefs[b].data[idx] = 0
    /\ coefs # pre

\* C4: a bundle of dimensionality 1, 2, 3 has k = 1, 3, 7 bands per level;
\* every detail band b with floor(b/k) in skip_bands is unchanged by the call
\* and threshold_func is invoked, with band level floor(b/k), for exactly the
\* other detail bands.
C4_LevelPerDimensionality ==
    (IsThreshold /\ result = "ok") =>
        LET k == Directions(Len(coefs[0].shape))
        IN  /\ \A b \in 0..(LenB(coefs) - 2) :
                  (b \div k) \in op.skip_bands => coefs[b] = pre[b]
            /\ { <<r.band, r.band_level>> : r \in calls } =
                  { <<b, b \div k>> : b \in { c \in 0..(LenB(coefs) - 2) :
                                                (c \div k) \notin op.skip_bands } }

\* C5: in per-plane mode the plane index passed to threshold_func for plane p
\* of a band of level l is (p - 2^(l+1)) mod num_planes, which lies in
\* [0, num_planes).
C5_AdjustedPlaneWraps ==
    (IsThreshold /\ op.within_axis # None /\ result = "ok") =>
        \A r \in calls :
            LET num_planes == coefs[r.band].shape[Val(op.within_axis) + 1]
            IN  /\ Val(r.plane) = (Val(r.p) - 2 ^ (r.band_level + 1)) % num_planes
                /\ Val(r.plane) \in 0..(num_planes - 1)

\* C10: after low_pass_spatial_filter on a 3D bundle, plane p along
\* within_axis of detail band b is entirely zero if lo < p < hi and
\* floor(b/7) < max_band and is otherwise as before the call; with the
\* default range (0, 0) the call changes nothing.
C10_SpatialMask ==
    (IsLowPass /\ Len(coefs[0].shape) = 3) =>
        /\ result = "ok"
        /\ \A b \in 0..(LenB(coefs) - 2) : \A idx \in DOMAIN coefs[b].data :
              LET p == idx[op.within_axis + 1]
              IN  coefs[b].data[idx] =
                     IF op.range[1] < p /\ p < op.range[2] /\ (b \div 7) < op.max_band
                     THEN 0 ELSE pre[b].data[idx]
        /\ op.range = <<0, 0>> => coefs = pre

\* C10 witness: a call on a two-level 3D bundle zeroed a non-zero plane of a
\* level-0 band, left its neighbouring plane p = lo, and left a level-1 band
\* that has a non-zero element in the masked range.
C10_Witness ==
    /\ IsLowPass /\ result = "ok" /\ Len(coefs[0].shape) = 3 /\ LenB(coefs) = 15
    /\ op.max_band = 1 /\ op.range = <<0, 2>>
    /\ \E idx \in DOMAIN coefs[0].data :
          /\ idx[op.within_axis + 1] = 1
          /\ pre[0].data[idx] # 0 /\ coefs[0].data[idx] = 0
    /\ \E idx \in DOMAIN coefs[0].data :
          idx[op.within_axis + 1] = 0 /\ coefs[0].data[idx] # 0
    /\ \E idx \in DOMAIN coefs[7].data :
          idx[op.within_axis + 1] = 1 /\ coefs[7].data[idx] # 0

(***************************************************************************)
(* The update operators as actions                                         *)
(***************************************************************************)

\* longest list among the operands of an update
MaxLen == 3

UpdateShapes == { <<2>>, <<2, 2>> }

Ones == <<1>>
NumeratorPattern == <<4, -4, 8, 0, 12>>
DenominatorPattern == <<0, 1, -3>>
NormalizationPattern == <<1, 2, -2, -1>>

UpdateCalls(shape) ==
    [name : {"update"},
     update : { MakeBundleOf(pat, shape, n, 0) : pat \in {Pattern, Ones}, n \in 1..MaxLen },
     alpha : {-1, 2, 3}]

MultiplicativeCalls(shape) ==
    [name : {"multiplicative_update"},
     numerator : { MakeBundleOf(NumeratorPattern, shape, n, 0) : n \in 1..MaxLen },
     denominator : { MakeBundleOf(DenominatorPattern, shape, n, 0) : n \in 1..MaxLen },
     normalization : { MakeBundleOf(NormalizationPattern, shape, n, 0) : n \in 1..MaxLen },
     alpha : {1}]

InitUpdate ==
    /\ coefs \in { MakeBundle(shape, n, seed) :
                     shape \in UpdateShapes, n \in 1..MaxLen, seed \in Seeds }
    /\ orig = coefs
    /\ pre = coefs
    /\ op = NoCall
    /\ repeated = FALSE
    /\ calls = {}
    /\ result = "None"
    /\ ret = None
    /\ ncalls = 0
    /\ facade = NoFacade

update ==
    \E a \in UpdateCalls(coefs[0].shape) :
        LET r == Update(coefs, a.update, a.alpha)
        IN  /\ ncalls < MaxCalls
            /\ coefs' = r.coefs
            /\ result' = r.result
            /\ ret' = r.ret
            /\ pre' = coefs
            /\ op' = a
            /\ repeated' = (op = a)
            /\ Count
            /\ UNCHANGED <<orig, calls, facade>>

multiplicative_update ==
    \E a \in MultiplicativeCalls(coefs[0].shape) :
        LET r == MultiplicativeUpdate(coefs, a.numerator, a.denominator,
                                      a.normalization, a.alpha)
        IN  /\ ncalls < MaxCalls
            /\ coefs' = r.coefs
            /\ result' = r.result
            /\ ret' = None
            /\ pre' = coefs
            /\ op' = a
            /\ repeated' = (op = a)
            /\ Count
            /\ UNCHANGED <<orig, calls, facade>>

NextUpdate == update \/ multiplicative_update

SpecUpdate == InitUpdate /\ [][NextUpdate]_vars

\* C7: multiplicative_update fails whenever bundle, numerator, denominator
\* and normalization do not all have the same length, and then no band of
\* the bundle has been replaced; when the lengths agree every band b becomes
\* (bundle[b] * numerator[b] / normalization[b]) / (denominator[b] + alpha).
C7_MultiplicativeAllOrNothing ==
    op.name = "multiplicative_update" =>
        IF /\ LenB(pre) = LenB(op.numerator)
           /\ LenB(pre) = LenB(op.denominator)
           /\ LenB(pre) = LenB(op.normalization)
        THEN /\ result = "ok"
             /\ \A b \in DOMAIN pre : \A idx \in DOMAIN pre[b].data :
                   coefs[b].data[idx] * op.normalization[b].data[idx]
                                      * (op.denominator[b].data[idx] + op.alpha)
                      = pre[b].data[idx] * op.numerator[b].data[idx]
        ELSE result # "ok" /\ coefs = pre

\* the sum over all bands and elements of (alpha * update[b][i])^2
DeltaSquares(u, alpha) ==
    SumOver({ <<b, idx>> : b \in DOMAIN u, idx \in DOMAIN u[0].data },
            [e \in { <<b, idx>> : b \in DOMAIN u, idx \in DOMAIN u[0].data } |->
                (alpha * u[e[1]].data[e[2]]) * (alpha * u[e[1]].data[e[2]])])

\* C9: update with len(bundle) = len(update) sets every band b, the last
\* included, to its pre-call value plus alpha * update[b] and returns the
\* norm whose square is the sum over all bands and elements of
\* (alpha * update[b][i])^2, which is 4N for an all-ones update of N elements
\* and alpha = 2; when the lengths differ the call fails with no band modified.
C9_AdditiveUpdate ==
    op.name = "update" =>
        IF LenB(pre) = LenB(op.update)
        THEN /\ result = "ok"
             /\ DOMAIN coefs = DOMAIN pre
             /\ \A b \in DOMAIN pre : \A idx \in DOMAIN pre[b].data :
                   coefs[b].data[idx] = pre[b].data[idx] + op.alpha * op.update[b].data[idx]
             /\ ret = Sqrt(DeltaSquares(op.update, op.alpha))
             /\ ( /\ op.alpha = 2
                  /\ \A b \in DOMAIN pre : \A idx \in DOMAIN pre[b].data :
                        op.update[b].data[idx] = 1 )
                => ret = Sqrt(4 * LenB(pre) * Prod(pre[0].shape))
        ELSE result = "AssertionError" /\ coefs = pre

\* C9 witness: an update of several bands with varied values and alpha = 3
\* was applied and changed the last band.
C9_Witness ==
    /\ op.name = "update" /\ result = "ok" /\ op.alpha = 3 /\ LenB(coefs) = 3
    /\ coefs[2] # pre[2]
    /\ ret.sqrt_of > 9 * LenB(coefs) * Prod(coefs[0].shape)

(***************************************************************************)
(* The facade: forward transform and flattening as actions                 *)
(***************************************************************************)

\* most arrays in a bundle handed to coefs_to_vec
MaxArrays == 4

Wavelet == "d8"

Facades ==
    { f \in { Construct(shape, Wavelet, nb) :
                shape \in { <<3>>, <<9>>, <<2, 3>>, <<2, 1, 2>> },
                nb \in { None, Some(1), Some(2) } } :
        f.constructed = "ok" }

DataShapes ==
    { <<1>>, <<8>>, <<9>>, <<16>>, <<17>>, <<2, 2>>, <<8, 9>>, <<9, 9>>, <<16, 17>>,
      <<4, 9, 9>>, <<9, 9, 9>>, <<2, 2, 2, 2>>, <<9, 9, 9, 9>> }

InitFacade ==
    /\ facade \in Facades
    /\ coefs = None
    /\ orig = None
    /\ pre = None
    /\ op = NoCall
    /\ repeated = FALSE
    /\ calls = {}
    /\ result = "None"
    /\ ret = None
    /\ ncalls = 0

\* the functional form, with any num_bands
modwt_transform ==
    \E shape \in DataShapes, dtype \in {"float32", "float64"},
       nb \in { None, Some(-1), Some(0), Some(1), Some(2) } :
        LET data == [shape |-> shape, dtype |-> dtype]
            r == ModwtTransform(data, Wavelet, nb)
        IN  /\ op' = [name |-> "modwt_transform", data |-> data, num_bands |-> nb]
            /\ result' = r.result
            /\ calls' = r.calls
            /\ ret' = r.ret
            /\ repeated' = FALSE
            /\ UNCHANGED <<coefs, orig, pre, ncalls, facade>>

\* the object form, with the num_bands of the constructor
fwd ==
    \E shape \in DataShapes, dtype \in {"float32", "float64"} :
        LET data == [shape |-> shape, dtype |-> dtype]
            r == Fwd(facade, data)
        IN  /\ op' = [name |-> "fwd", data |-> data, num_bands |-> facade.num_bands]
            /\ result' = r.result
            /\ calls' = r.calls
            /\ ret' = r.ret
            /\ repeated' = FALSE
            /\ UNCHANGED <<coefs, orig, pre, ncalls, facade>>

NextFwd == modwt_transform \/ fwd

SpecFwd == InitFacade /\ [][NextFwd]_vars

\* C8: the forward transform fails, without delegating to the transform
\* engine, whenever the effective num_bands is not positive, be it the
\* auto-derived ceil(log2(min(shape))) - 3 or the one the caller supplied.
C8_NonPositiveBandCountFails ==
    op.name \in {"modwt_transform", "fwd"} =>
        LET effective == IF op.num_bands = None
                         THEN CeilLog2(MinOf(op.data.shape)) - 3
                         ELSE Val(op.num_bands)
        IN  effective <= 0 => (result # "ok" /\ calls = {})

\* SpecVec: a bundle or a vector is flattened / unflattened, and the value
\* returned is then passed through the opposite conversion
VecStage(name, stage) == [name |-> name, stage |-> stage]

coefs_to_vec ==
    \/ /\ op = NoCall
       /\ \E n \in 1..MaxArrays, seed \in Seeds :
            LET B == MakeBundle(facade.img_shape, n, seed)
            IN  pre' = B /\ ret' = CoefsToVec(B)
       /\ op' = VecStage("coefs_to_vec", 1)
       /\ result' = "ok"
       /\ repeated' = FALSE
       /\ UNCHANGED <<coefs, orig, calls, ncalls, facade>>
    \/ /\ op = VecStage("vec_to_coefs", 1) /\ result = "ok"
       /\ ret' = CoefsToVec(ret)
       /\ op' = VecStage("coefs_to_vec", 2)
       /\ result' = "ok"
       /\ repeated' = FALSE
       /\ UNCHANGED <<coefs, orig, pre, calls, ncalls, facade>>

vec_to_coefs ==
    \/ /\ op = NoCall
       /\ \E len \in 1..(MaxArrays * Prod(facade.img_shape)), seed \in Seeds :
            LET v == [k \in 1..len |-> Pattern[((seed + 3 * k) % Len(Pattern)) + 1]]
                r == VecToCoefs(facade, v)
            IN  pre' = v /\ ret' = r.ret /\ result' = r.result
       /\ op' = VecStage("vec_to_coefs", 1)
       /\ repeated' = FALSE
       /\ UNCHANGED <<coefs, orig, calls, ncalls, facade>>
    \/ /\ op = VecStage("coefs_to_vec", 1)
       /\ LET r == VecToCoefs(facade, ret)
          IN  ret' = r.ret /\ result' = r.result
       /\ op' = VecStage("vec_to_coefs", 2)
       /\ repeated' = FALSE
       /\ UNCHANGED <<coefs, orig, pre, calls, ncalls, facade>>

NextVec == coefs_to_vec \/ vec_to_coefs

SpecVec == InitFacade /\ [][NextVec]_vars

\* C6 as stated: on a facade of shape S, vec_to_coefs(coefs_to_vec(B)) is B,
\* with as many arrays and the same shapes, for any bundle B of arrays of
\* shape S, and coefs_to_vec(vec_to_coefs(v)) is v for any v accepted.
C6_RoundTrip ==
    /\ (op = VecStage("vec_to_coefs", 2) /\ \A b \in DOMAIN pre : pre[b].shape = facade.img_shape)
          => (result = "ok" /\ ret = pre)
    /\ op = VecStage("coefs_to_vec", 2) => ret = pre

\* C6 amended: vec_to_coefs(coefs_to_vec(B)) is B for any bundle B of arrays
\* of shape S that has as many arrays as the facade's example_coefs, and
\* fails for a bundle of any other length; coefs_to_vec(vec_to_coefs(v)) is
\* v for any v accepted.
C6_RoundTripSameLength ==
    /\ (op = VecStage("vec_to_coefs", 2) /\ \A b \in DOMAIN pre : pre[b].shape = facade.img_shape)
          => IF LenB(pre) = facade.example_coefs.len
             THEN result = "ok" /\ ret = pre
             ELSE result = "ValueError"
    /\ op = VecStage("coefs_to_vec", 2) => ret = pre

\* C6 witness: a bundle of 2 by 3 arrays, not symmetric under transposition,
\* came back from the round trip.
C6_Witness ==
    /\ op = VecStage("vec_to_coefs", 2) /\ result = "ok"
    /\ facade.img_shape = <<2, 3>>
    /\ ret = pre
    /\ pre[0].data[<<1, 0>>] # pre[0].data[<<0, 1>>]
    /\ LenB(pre) = 4

====
